---- MODULE Spec2Model ----
(***************************************************************************)
(* TLVArchive downloader (src/main.py): the crawl of parcels (gush-chelka) *)
(* and cases (tik) by a pool of DownloadWorker threads over one Queue, the *)
(* status ledger (CsvTikHolder) of every group (ktatrova), the per-case    *)
(* record files (CsvDocHolder), and the report pass that follows join.     *)
(***************************************************************************)
EXTENDS Integers, Sequences, FiniteSets, TLC

\* ------------------------------------------------------------------ bounds
NumWorkers == 2        \* size of the DownloadWorker pool (--cores)
MaxFaults == 2         \* exceptions the document source raises in one behaviour
MaxRuns == 2           \* runs of main() over the same output directory

\* ------------------------------------------------------- program constants
COMPLETED == "completed"
MISMATCH == "mismatch"
EMPTY == ""
NO_RESULTS == "no_results"

Workers == 1..NumWorkers
NoWorker == 0               \* data_lock is free
NoTik == ""                 \* tik_id of a gush-chelka job that has no case bound
Unrelated == 0              \* a file of a case directory that no document row names
BlankDoc == <<"", 0>>       \* the document cell of the all-blank row to_csv writes

\* ------------------------------------------------------------ small helpers
Range(s) == {s[i] : i \in DOMAIN s}

Orders(S) == {s \in [1..Cardinality(S) -> S] : Range(s) = S}

RECURSIVE Flatten(_)
Flatten(ss) == IF ss = <<>> THEN <<>> ELSE Head(ss) \o Flatten(Tail(ss))

\* ---------------------------------------------------------------- state
VARIABLES
    env,          \* the document source and the input csv of this behaviour
    run,          \* number of the current run of main()
    mpc,          \* position of the main thread
    mi,           \* next input row activate_threads puts
    queue,        \* Queue: the jobs queued, head first
    unfinished,   \* Queue.unfinished_tasks
    pc,           \* position of every DownloadWorker
    cur,          \* the GushChelka job a worker is running
    loc,          \* locals of the running call: in the repeated-tik block, fan-out index,
                  \* the except block ran
    status_csvs,  \* ktatrova -> CsvTikHolder (ledger, index, active set) in memory
    status_file,  \* ktatrova -> rows of the persisted status csv
    res_files,    \* <<ktatrova, tik_id>> -> rows of the per-case documents csv; <<>> absent
    dirs,         \* <<ktatrova, tik_id>> -> document files in the case directory
    merged_csv,   \* ktatrova -> rows of the merged documents csv of this run
    reporters,    \* ktatrova -> the Reporter of the group after verify_ktatrova
    merged_reporter, \* the Reporter merge_reports builds from the groups' Reporters
    data_lock,    \* the worker inside a "with data_lock" block, NoWorker when free
    faults,       \* exceptions raised so far
    hist          \* history of the run: claims, fetches, download requests, re-queues

vars == <<env, run, mpc, mi, queue, unfinished, pc, cur, loc, status_csvs,
          status_file, res_files, dirs, merged_csv, reporters, merged_reporter,
          data_lock, faults, hist>>

\* ------------------------------------------------------- the document source
Ktatrovas == {"A"}
Tiks == {"c1", "c2"}
DirKeys == Ktatrovas \X (Tiks \cup {NoTik})

\* rows of a case page by page; a row is named by its documentid
PagesOf(tik) == env.pages[tik]
DocsOf(tik) == Range(Flatten(PagesOf(tik)))

\* the path of a document: os.path.join(res_dir, doc_file)
doc_path(tik, doc) == <<tik, doc>>

\* get_web_count: the count the case page declares
get_web_count(tik) == env.web[tik]

\* ------------------------------------------------------------ CsvTikHolder
create_status_record(kt, gc, tik, st, nr) ==
    [ktatrova |-> kt, gc |-> gc, tik_id |-> tik, status |-> st, no_results |-> nr,
     docs_in_csv |-> 0, docs_in_directory |-> 0, docs_in_web |-> 0,
     docs_in_csv_not_in_dir |-> 0, docs_in_dir_not_in_csv |-> 0]

CsvTikHolder == [rows |-> <<>>, key_to_index |-> <<>>, next_index |-> 0,
                 tik_ids_queued |-> {}]

\* the composite key f"{ktatrova}_{gush}_{chelka}_{tik_id}" (gc stands for
\* the parcel, gush and chelka)
StatusKey(kt, gc, tik) == kt \o "_" \o gc \o "_" \o tik

\* an index that never moves on to the next row
add_next_key_stale(h) ==
    LET i == 1
        key == StatusKey(h.rows[i].ktatrova, h.rows[i].gc, h.rows[i].tik_id)
    IN [h EXCEPT !.key_to_index =
                     [k \in (DOMAIN h.key_to_index) \cup {key} |->
                         IF k = key THEN i ELSE h.key_to_index[k]]]

\* add_next_key: index the row at next_index (positions are 1-based here)
add_next_key(h) ==
    LET i == h.next_index + 1
        key == StatusKey(h.rows[i].ktatrova, h.rows[i].gc, h.rows[i].tik_id)
    IN [h EXCEPT !.key_to_index =
                     [k \in (DOMAIN h.key_to_index) \cup {key} |->
                         IF k = key THEN i ELSE h.key_to_index[k]],
                 !.next_index = h.next_index + 1]

\* CsvTikHolder.add
add(h, record) == add_next_key([h EXCEPT !.rows = Append(h.rows, record)])

RECURSIVE extend(_, _)
extend(h, records) ==
    IF records = <<>> THEN h ELSE extend(add(h, Head(records)), Tail(records))

\* CsvTikHolder.to_csv: the rows written; an empty ledger writes no file
to_csv(h, old) == IF h.rows = <<>> THEN old ELSE h.rows

RECURSIVE index_rows(_, _)
index_rows(h, n) == IF n = 0 THEN h ELSE index_rows(add_next_key(h), n - 1)

\* CsvTikHolder.read_csv
read_csv(rows) == index_rows([CsvTikHolder EXCEPT !.rows = rows], Len(rows))

\* ------------------------------------------------------------ CsvDocHolder
\* CsvDocHolder.to_csv: no path writes nothing, no record writes one blank row
doc_to_csv(tik, res_csv, old) ==
    IF tik = NoTik THEN old
    ELSE IF res_csv = <<>> THEN <<BlankDoc>> ELSE res_csv

\* ------------------------------------------------------------- GushChelka
GushChelka(kt, gc, tik) ==
    [ktatrova |-> kt, gc |-> gc, born |-> tik, tik_id |-> tik, tik_ids |-> <<>>,
     tik_indexes |-> {}, status_index |-> 0, no_results |-> "",
     res_csv |-> <<>>, docs_in_web |-> 0, docs_in_csv |-> 0,
     current_page |-> 0, current_row |-> 0, start_idx |-> 0]

JobId(j) == <<j.ktatrova, j.gc, j.born>>

\* update_fields: status_index follows the key when the key is indexed
update_fields(j, h) ==
    IF j.tik_id # NoTik /\ StatusKey(j.ktatrova, j.gc, j.tik_id) \in DOMAIN h.key_to_index
    THEN [j EXCEPT !.status_index = h.key_to_index[StatusKey(j.ktatrova, j.gc, j.tik_id)]]
    ELSE j

\* get_indexes_from_status
get_indexes_from_status(j, h) ==
    IF j.tik_id # NoTik /\ StatusKey(j.ktatrova, j.gc, j.tik_id) \in DOMAIN h.key_to_index
    THEN j.tik_indexes \cup {h.key_to_index[StatusKey(j.ktatrova, j.gc, j.tik_id)]}
    ELSE j.tik_indexes \cup
         {i \in DOMAIN h.rows : h.rows[i].ktatrova = j.ktatrova /\ h.rows[i].gc = j.gc}

\* the uncompleted tiks among the job's rows
uncompleted_tiks(idx, h) == {h.rows[i].tik_id : i \in {k \in idx : h.rows[k].status # COMPLETED}}

\* a test that finds no job completed
is_completed_never(idx, h) == FALSE

\* lines 540-549: the job has rows and none of them is uncompleted
is_completed(idx, h) == idx # {} /\ uncompleted_tiks(idx, h) = {}

\* rows of the status csv other than i are kept, row i is changed by f
\* (status_index -1, here 0, is Python's last row)
PyIndex(i, n) == IF i = 0 THEN n ELSE i

set_field(h, i, field, value) ==
    [h EXCEPT !.rows[PyIndex(i, Len(h.rows))] =
                  [@ EXCEPT ![field] = value]]

\* os.path.exists(doc_path) / glob of a case directory without the script's own files
filtered_dir_docs(kt, tik) == {doc_path(tik, f) : f \in dirs[<<kt, tik>>]}

\* a rule that marks mismatch whatever the row's status was
update_status_csv_overwrite(j, h) ==
    LET dir_docs == filtered_dir_docs(j.ktatrova, j.tik_id)
        docs_in_csv_not_in_dir == SelectSeq(j.res_csv, LAMBDA x : x \notin dir_docs)
        upd(r) ==
            [r EXCEPT
               !.docs_in_web = IF r.docs_in_web = 0 /\ j.docs_in_web > 0
                               THEN j.docs_in_web ELSE @,
               !.docs_in_csv = j.docs_in_csv,
               !.docs_in_directory = Cardinality(dir_docs),
               !.status = IF /\ 0 < j.docs_in_csv
                             /\ j.docs_in_csv = j.docs_in_web
                             /\ j.docs_in_web <= Cardinality(dir_docs)
                             /\ docs_in_csv_not_in_dir = <<>>
                          THEN COMPLETED ELSE MISMATCH]
    IN [h EXCEPT !.rows = [i \in DOMAIN h.rows |->
                              IF h.rows[i].tik_id = j.tik_id THEN upd(h.rows[i])
                              ELSE h.rows[i]]]

\* update_status_csv: the counters and the status of every row with the job's tik_id
update_status_csv(j, h) ==
    LET dir_docs == filtered_dir_docs(j.ktatrova, j.tik_id)
        docs_in_dir_not_in_csv == {x \in dir_docs : x \notin Range(j.res_csv)}
        docs_in_csv_not_in_dir == SelectSeq(j.res_csv, LAMBDA x : x \notin dir_docs)
        upd(r) ==
            [r EXCEPT
               !.docs_in_web = IF r.docs_in_web = 0 /\ j.docs_in_web > 0
                               THEN j.docs_in_web ELSE @,
               !.docs_in_csv = j.docs_in_csv,
               !.docs_in_directory = Cardinality(dir_docs),
               !.docs_in_dir_not_in_csv = Cardinality(docs_in_dir_not_in_csv),
               !.docs_in_csv_not_in_dir = Len(docs_in_csv_not_in_dir),
               !.status = IF /\ 0 < j.docs_in_csv
                             /\ j.docs_in_csv = j.docs_in_web
                             /\ j.docs_in_web <= Cardinality(dir_docs)
                             /\ docs_in_csv_not_in_dir = <<>>
                          THEN COMPLETED
                          ELSE IF r.status # COMPLETED THEN MISMATCH ELSE r.status]
    IN [h EXCEPT !.rows = [i \in DOMAIN h.rows |->
                              IF h.rows[i].tik_id = j.tik_id THEN upd(h.rows[i])
                              ELSE h.rows[i]]]

\* rows of empty status for the tiks, and none for a search without results
status_records_tiks_only(j) ==
    [i \in DOMAIN j.tik_ids |->
        create_status_record(j.ktatrova, j.gc, j.tik_ids[i], EMPTY, "")]

\* add_status_records: the records made for the tiks found, or the one
\* completed no-results record
status_records(j) ==
    IF j.tik_ids = <<>>
    THEN <<create_status_record(j.ktatrova, j.gc, NoTik, COMPLETED, NO_RESULTS)>>
    ELSE [i \in DOMAIN j.tik_ids |->
             create_status_record(j.ktatrova, j.gc, j.tik_ids[i], EMPTY, "")]

\* the first tik never gets a job of its own
put_start_after_first(j) == 1

\* put_tiks_in_queue: the tiks of the job that get a job of their own
put_start(j) == IF j.tik_id # NoTik THEN 1 ELSE 0

tiks_to_put(j) == SubSeq(j.tik_ids, put_start(j) + 1, Len(j.tik_ids))

\* ------------------------------------------------------------ initial state
Gcs == {"p1", "p2"}
JobIds == Ktatrovas \X Gcs \X (Tiks \cup {NoTik})
NoJob == GushChelka("", "", NoTik)
Input == <<[kt |-> "A", gc |-> "p1"], [kt |-> "A", gc |-> "p2"]>>

\* a source and an input: what discovery returns for every parcel (and whether
\* the no-results message shows), the pages of every case, the count the case
\* page declares, the documents whose download never arrives, the cases whose
\* page says no results, and whether calls to the source can raise
Source(d1, d2, m, pg, nv, nr, rel) ==
    [input |-> Input,
     disc |-> [g \in Gcs |-> IF g = "p1" THEN d1 ELSE d2],
     msg |-> [g \in Gcs |-> m],
     pages |-> [t \in Tiks |-> IF t = "c1" THEN pg ELSE <<<<1>>>>],
     web |-> [t \in Tiks |-> IF t = "c1" THEN 2 ELSE 1],
     never |-> [t \in Tiks |-> IF t = "c1" THEN nv ELSE {}],
     nores |-> nr,
     reliable |-> rel,
     budget |-> MaxFaults]

OnePage == << <<1, 2>> >>
TwoPages == << <<1>>, <<2>> >>

\* two parcels of one ktatrova that may share case c1; c1 has two document
\* rows on one or on two pages, c2 has one row
ReliableSources ==
    {Source(d1, d2, m, pg, nv, {}, TRUE) :
        d1 \in {<<"c1">>, <<"c1", "c2">>},
        d2 \in {<<"c1">>},
        m \in {TRUE},
        pg \in {OnePage, TwoPages},
        nv \in {{}, {2}}}
    \cup
    {Source(<<"c1", "c2">>, <<>>, m, OnePage, {}, nr, TRUE) :
        m \in BOOLEAN, nr \in {{}, {"c2"}}}

\* sources whose calls can raise: both parcels lead to the same case, or
\* one parcel leads to two cases and the other to none
FaultySources ==
    {Source(<<t>>, <<t>>, TRUE, pg, {}, {}, FALSE) :
        t \in Tiks, pg \in {OnePage, TwoPages}}
    \cup {Source(<<"c1", "c2">>, <<>>, TRUE, OnePage, {}, {}, FALSE)}

\* the files of case c1 before the first run
DirsWith(f) == [k \in DirKeys |-> IF k[2] = "c1" THEN f ELSE {}]

\* <<source, directories>> of the behaviours explored
Scenarios ==
    (ReliableSources \X {DirsWith(f) : f \in {{}, {1}, {1, 2, Unrelated}}})
    \cup (FaultySources \X {DirsWith({})})

NoHist(files, d) ==
    [claimed |-> {}, launched |-> {}, requested |-> {},
     returned |-> {},
     puts |-> [id \in JobIds |-> 0],
     requeues |-> [id \in JobIds |-> 0],
     start_file |-> files, start_dirs |-> d]

Init ==
    /\ \E sc \in Scenarios : env = sc[1] /\ dirs = sc[2]
    /\ run = 1
    /\ mpc = "put"
    /\ mi = 1
    /\ queue = <<>>
    /\ unfinished = 0
    /\ pc = [w \in Workers |-> "idle"]
    /\ cur = [w \in Workers |-> NoJob]
    /\ loc = [w \in Workers |-> [rep |-> FALSE, k |-> 0, exc |-> FALSE]]
    /\ status_csvs = [kt \in Ktatrovas |-> CsvTikHolder]
    /\ status_file = [kt \in Ktatrovas |-> <<>>]
    /\ res_files = [k \in DirKeys |-> <<>>]
    /\ merged_csv = [kt \in Ktatrovas |-> <<>>]
    /\ reporters = [kt \in Ktatrovas |-> <<>>]
    /\ merged_reporter = <<>>
    /\ data_lock = NoWorker
    /\ faults = 0
    /\ hist = NoHist(status_file, dirs)

\* a queue that hands out the newest job first
put_front(q, item) == <<item>> \o q

\* Queue.put on the queue.Queue of activate_threads: the item goes to the tail
put(q, item) == Append(q, item)

\* ------------------------------------------------------------- main thread
\* activate_threads, the loop that puts every gush-chelka of the input
Put ==
    /\ mpc = "put"
    /\ mi <= Len(env.input)
    /\ LET r == env.input[mi]
           j == update_fields(GushChelka(r.kt, r.gc, NoTik), status_csvs[r.kt])
       IN /\ queue' = put(queue, j)
          /\ unfinished' = unfinished + 1
    /\ mi' = mi + 1
    /\ mpc' = IF mi = Len(env.input) THEN "join" ELSE "put"
    /\ UNCHANGED <<env, run, pc, cur, loc, status_csvs, status_file, res_files,
                   dirs, merged_csv, reporters, merged_reporter, data_lock, faults, hist>>

\* a join that waits for an empty queue only
JoinReturns_empty == queue = <<>>

\* Queue.join: returns when unfinished_tasks is zero
JoinReturns == unfinished = 0

\* the main thread goes on without joining the queue
Join_skipped ==
    /\ mpc = "join"
    /\ mpc' = "merge"
    /\ UNCHANGED <<env, run, mi, queue, unfinished, pc, cur, loc, status_csvs,
                   status_file, res_files, dirs, merged_csv, reporters,
                   merged_reporter, data_lock, faults, hist>>

\* activate_threads, queue.join()
Join ==
    /\ mpc = "join"
    /\ JoinReturns
    /\ mpc' = "merge"
    /\ UNCHANGED <<env, run, mi, queue, unfinished, pc, cur, loc, status_csvs,
                   status_file, res_files, dirs, merged_csv, reporters,
                   merged_reporter, data_lock, faults, hist>>

\* --------------------------------------------------------- DownloadWorker
Job(w) == cur[w]
Holder(w) == status_csvs[cur[w].ktatrova]

\* an exception may still be raised: the source is not reliable and fewer
\* than the behaviour's budget of exceptions (MaxFaults unless the scenario
\* says otherwise) were raised
CanRaise == ~env.reliable /\ faults < env.budget
Outcomes == IF CanRaise THEN BOOLEAN ELSE {TRUE}

\* where download_docs_and_get_data goes once the tiks are in the queue
AfterPut(j) == IF j.tik_id # NoTik THEN "case" ELSE "task_done"

\* lines 582-584: the tiks are put when there are any
BeforePut(j) == IF tiks_to_put(j) # <<>> THEN "fanout" ELSE AfterPut(j)

\* DownloadWorker.run: queue.get, then the entry of download_docs_and_get_data;
\* a job with start_idx > 0 is in the repeated-tik block of lines 526-536
Get(w) ==
    /\ pc[w] = "idle"
    /\ queue # <<>>
    /\ cur' = [cur EXCEPT ![w] = Head(queue)]
    /\ queue' = Tail(queue)
    /\ loc' = [loc EXCEPT ![w] = [rep |-> Head(queue).start_idx > 0, k |-> 0, exc |-> FALSE]]
    /\ pc' = [pc EXCEPT ![w] = IF Head(queue).start_idx > 0 THEN "launch" ELSE "check"]
    /\ UNCHANGED <<env, run, mpc, mi, unfinished, status_csvs, status_file, res_files,
                   dirs, merged_csv, reporters, merged_reporter, data_lock, faults,
                   hist>>

\* download_docs_and_get_data, lines 538-558: the job's rows, the completed
\* test, binding the first uncompleted tik (the order of a set is arbitrary)
Check(w) ==
    /\ pc[w] = "check"
    /\ LET j == Job(w)
           h == Holder(w)
           idx == get_indexes_from_status(j, h)
           j1 == [j EXCEPT !.tik_indexes = idx]
           tiks == uncompleted_tiks(idx, h)
       IN IF is_completed(idx, h)
          THEN /\ cur' = [cur EXCEPT ![w] = j1]
               /\ pc' = [pc EXCEPT ![w] = "task_done"]
               /\ hist' = [hist EXCEPT !.returned = @ \cup {JobId(j)}]
          ELSE IF tiks # {}
          THEN \E o \in Orders(tiks) :
                  /\ cur' = [cur EXCEPT ![w] =
                                update_fields([j1 EXCEPT !.tik_ids = o, !.tik_id = o[1]], h)]
                  /\ pc' = [pc EXCEPT ![w] = IF o[1] # NoTik THEN "claim" ELSE "launch"]
                  /\ UNCHANGED hist
          ELSE /\ cur' = [cur EXCEPT ![w] = j1]
               /\ pc' = [pc EXCEPT ![w] = IF j.tik_id # NoTik THEN "claim" ELSE "launch"]
               /\ UNCHANGED hist
    /\ loc' = [loc EXCEPT ![w].rep = FALSE]
    /\ UNCHANGED <<env, run, mpc, mi, queue, unfinished, status_csvs, status_file,
                   res_files, dirs, merged_csv, reporters, merged_reporter, data_lock,
                   faults>>

\* a test that finds no tik active
is_active_never(tik, h) == FALSE

\* one active set for all the ktatrovas
is_active_any_group(tik, h) == \E g \in DOMAIN status_csvs : tik \in status_csvs[g].tik_ids_queued

\* is_active: is the tik in tik_ids_queued
is_active(tik, h) == tik \in h.tik_ids_queued

\* line 560, is_active under data_lock: an active tik ends the job, any other
\* tik becomes active
Claim(w) ==
    /\ pc[w] = "claim"
    /\ LET j == Job(w)
           h == Holder(w)
       IN IF is_active(j.tik_id, h)
          THEN /\ pc' = [pc EXCEPT ![w] = "task_done"]
               /\ UNCHANGED <<status_csvs, hist>>
          ELSE /\ status_csvs' = [status_csvs EXCEPT ![j.ktatrova].tik_ids_queued =
                                      @ \cup {j.tik_id}]
               /\ hist' = [hist EXCEPT !.claimed = @ \cup {<<j.ktatrova, j.tik_id, JobId(j)>>}]
               /\ pc' = [pc EXCEPT ![w] = "launch"]
    /\ UNCHANGED <<env, run, mpc, mi, queue, unfinished, cur, loc, status_file,
                   res_files, dirs, merged_csv, reporters, merged_reporter, data_lock,
                   faults>>

\* navigate_to_gush_chelka, get_tik_ids and search_no_results_message(True)
get_tik_ids(j) ==
    [j EXCEPT !.tik_ids = env.disc[j.gc],
              !.no_results = IF env.disc[j.gc] = <<>> /\ env.msg[j.gc]
                             THEN NO_RESULTS ELSE @]

\* launch_and_accept_policy: the browser opens the job's url. In the
\* repeated-tik block handle_table follows on the job's page from start_idx;
\* a job without tik goes on to discover its tiks
Launch(w) ==
    /\ pc[w] = "launch"
    /\ LET j == Job(w)
       IN /\ hist' = [hist EXCEPT !.launched = @ \cup {<<j.ktatrova, j.tik_id, JobId(j)>>}]
          /\ IF loc[w].rep
             THEN /\ cur' = [cur EXCEPT ![w].current_row = j.start_idx]
                  /\ pc' = [pc EXCEPT ![w] = "rows"]
             ELSE IF j.tik_id = NoTik
             THEN /\ cur' = [cur EXCEPT ![w] = get_tik_ids(j)]
                  /\ pc' = [pc EXCEPT ![w] = "add_status"]
             ELSE /\ pc' = [pc EXCEPT ![w] = BeforePut(j)]
                  /\ UNCHANGED cur
    /\ UNCHANGED <<env, run, mpc, mi, queue, unfinished, loc, status_csvs, status_file,
                   res_files, dirs, merged_csv, reporters, merged_reporter, data_lock,
                   faults>>

\* add_status_records: append the discovered rows and save, under data_lock;
\* then the no-results return of line 579
AddStatus(w) ==
    /\ pc[w] = "add_status"
    /\ LET j == Job(w)
           h1 == extend(Holder(w), status_records(j))
       IN \E ok \in Outcomes :
            /\ status_csvs' = [status_csvs EXCEPT ![j.ktatrova] = h1]
            /\ IF ok
               THEN /\ status_file' = [status_file EXCEPT ![j.ktatrova] = to_csv(h1, @)]
                    /\ pc' = [pc EXCEPT ![w] =
                                 IF Len(j.tik_ids) = 0 THEN "task_done" ELSE BeforePut(j)]
                    /\ UNCHANGED faults
               ELSE /\ pc' = [pc EXCEPT ![w] = "handler"]
                    /\ faults' = faults + 1
                    /\ UNCHANGED status_file
    /\ UNCHANGED <<env, run, mpc, mi, queue, unfinished, cur, loc, res_files,
                   dirs, merged_csv, reporters, merged_reporter, data_lock, hist>>

\* put_tiks_in_queue: one queue.put of the loop
Fanout(w) ==
    /\ pc[w] = "fanout"
    /\ LET j == Job(w)
           tiks == tiks_to_put(j)
           k == loc[w].k + 1
           tik == update_fields(GushChelka(j.ktatrova, j.gc, tiks[k]), Holder(w))
       IN /\ queue' = put(queue, tik)
          /\ unfinished' = unfinished + 1
          /\ loc' = [loc EXCEPT ![w].k = k]
          /\ hist' = [hist EXCEPT !.puts[JobId(tik)] = @ + 1]
          /\ pc' = [pc EXCEPT ![w] = IF k < Len(tiks) THEN "fanout" ELSE AfterPut(j)]
    /\ UNCHANGED <<env, run, mpc, mi, cur, status_csvs, status_file, res_files,
                   dirs, merged_csv, reporters, merged_reporter, data_lock, faults>>

\* the rows (trs) of the page the job is on
Trs(j) ==
    IF j.tik_id \in Tiks /\ j.current_page \in DOMAIN PagesOf(j.tik_id)
    THEN PagesOf(j.tik_id)[j.current_page] ELSE <<>>

\* lines 587-591: the case page says no results; the job's row is completed
\* under data_lock, update_status_csv follows
NoResults(w) ==
    /\ pc[w] = "case"
    /\ Job(w).tik_id \in env.nores
    /\ LET j == Job(w)
           h == Holder(w)
       IN /\ cur' = [cur EXCEPT ![w].no_results = NO_RESULTS]
          /\ status_csvs' = [status_csvs EXCEPT ![j.ktatrova] =
                 set_field(set_field(h, j.status_index, "status", COMPLETED),
                           j.status_index, "no_results", NO_RESULTS)]
          /\ pc' = [pc EXCEPT ![w] = "update"]
    /\ UNCHANGED <<env, run, mpc, mi, queue, unfinished, loc, status_file, res_files,
                   dirs, merged_csv, reporters, merged_reporter, data_lock, faults,
                   hist>>

\* lines 593-594 and handle_table, lines 805-820: the walk starts on page 1;
\* on the first visit the declared count is read, written to the job's row
\* and saved under data_lock; the row loop starts at start_idx
Table(w) ==
    /\ pc[w] = "case"
    /\ Job(w).tik_id \notin env.nores
    /\ LET j == Job(w)
           h == Holder(w)
           first == j.start_idx = 0
           web == IF first THEN get_web_count(j.tik_id) ELSE j.docs_in_web
           h1 == IF first THEN set_field(h, j.status_index, "docs_in_web", web) ELSE h
       IN \E ok \in (IF first THEN Outcomes ELSE {TRUE}) :
            /\ status_csvs' = [status_csvs EXCEPT ![j.ktatrova] = h1]
            /\ IF ok
               THEN /\ status_file' = IF first
                                      THEN [status_file EXCEPT ![j.ktatrova] = to_csv(h1, @)]
                                      ELSE status_file
                    /\ cur' = [cur EXCEPT ![w] =
                                  [j EXCEPT !.current_page = 1, !.docs_in_web = web,
                                            !.current_row = j.start_idx]]
                    /\ pc' = [pc EXCEPT ![w] = "rows"]
                    /\ UNCHANGED faults
               ELSE /\ cur' = [cur EXCEPT ![w] =
                                  [j EXCEPT !.current_page = 1, !.docs_in_web = web]]
                    /\ pc' = [pc EXCEPT ![w] = "handler"]
                    /\ faults' = faults + 1
                    /\ UNCHANGED status_file
    /\ UNCHANGED <<env, run, mpc, mi, queue, unfinished, loc, res_files, dirs,
                   merged_csv, reporters, merged_reporter, data_lock, hist>>

\* handle_table_row up to the lock: the record is added and the count goes up
record_row(j, doc) ==
    [j EXCEPT !.current_row = @ + 1,
              !.res_csv = Append(@, doc_path(j.tik_id, doc)),
              !.docs_in_csv = @ + 1]

\* every row is downloaded again
must_download_always(j, doc) == TRUE

\* no row is downloaded
must_download_never(j, doc) == FALSE

\* os.path.exists(doc_path): the download is asked for when no file is there
must_download(j, doc) == doc \notin dirs[<<j.ktatrova, j.tik_id>>]

\* handle_table, one turn of the row loop with handle_table_row: record the
\* row, write the count to the job's row, ask for the document unless its file
\* exists and wait for it; a back button after the click (nav) sets start_idx
\* and handle_table walks on from the next row
Row(w) ==
    /\ pc[w] = "rows"
    /\ Job(w).current_row < Len(Trs(Job(w)))
    /\ LET j == Job(w)
           doc == Trs(j)[j.current_row + 1]
           j1 == record_row(j, doc)
           dk == <<j.ktatrova, j.tik_id>>
       IN /\ status_csvs' = [status_csvs EXCEPT ![j.ktatrova] =
                                set_field(Holder(w), j.status_index, "docs_in_csv", j1.docs_in_csv)]
          /\ IF must_download(j, doc)
             THEN \E nav \in {n \in BOOLEAN : n => CanRaise} :
                    /\ hist' = [hist EXCEPT !.requested = @ \cup {<<j.ktatrova, j.tik_id, doc>>}]
                    /\ dirs' = IF doc \in env.never[j.tik_id] \/ nav THEN dirs
                               ELSE [dirs EXCEPT ![dk] = @ \cup {doc}]
                    /\ cur' = [cur EXCEPT ![w] =
                                  IF nav THEN [j1 EXCEPT !.start_idx = j1.current_row] ELSE j1]
                    /\ faults' = IF nav THEN faults + 1 ELSE faults
             ELSE /\ cur' = [cur EXCEPT ![w] = j1]
                  /\ UNCHANGED <<hist, dirs, faults>>
    /\ UNCHANGED <<env, run, mpc, mi, queue, unfinished, pc, loc, status_file,
                   res_files, merged_csv, reporters, merged_reporter, data_lock>>

\* handle_table after the row loop, lines 840-848: the walk goes on to a next
\* page unless the csv count exceeds the web count
more_pages(j) ==
    /\ j.docs_in_csv <= j.docs_in_web
    /\ j.tik_id \in Tiks
    /\ j.current_page < Len(PagesOf(j.tik_id))

\* lines 849-855: next page, start_idx 0, the status saved (without the
\* lock), and handle_table again from the first row
PageTurn(w) ==
    /\ pc[w] = "rows"
    /\ Job(w).current_row >= Len(Trs(Job(w)))
    /\ more_pages(Job(w))
    /\ LET j == Job(w)
           h == Holder(w)
           j1 == update_fields([j EXCEPT !.current_page = @ + 1, !.start_idx = 0], h)
       IN \E ok \in Outcomes :
            IF ok
            THEN /\ status_file' = [status_file EXCEPT ![j.ktatrova] = to_csv(h, @)]
                 /\ cur' = [cur EXCEPT ![w] = [j1 EXCEPT !.current_row = 0]]
                 /\ UNCHANGED <<pc, faults>>
            ELSE /\ cur' = [cur EXCEPT ![w] = j1]
                 /\ pc' = [pc EXCEPT ![w] = "handler"]
                 /\ faults' = faults + 1
                 /\ UNCHANGED status_file
    /\ UNCHANGED <<env, run, mpc, mi, queue, unfinished, loc, status_csvs, res_files,
                   dirs, merged_csv, reporters, merged_reporter, data_lock, hist>>

\* the walk is over: res_csv.to_csv and update_status_csv (lines 530-531 and
\* 595-596), or update_status_csv alone after a no-results case page
SaveUpdate(w) ==
    /\ \/ pc[w] = "update"
       \/ /\ pc[w] = "rows"
          /\ Job(w).current_row >= Len(Trs(Job(w)))
          /\ ~more_pages(Job(w))
    /\ LET j == Job(w)
           h1 == update_status_csv(j, Holder(w))
           dk == <<j.ktatrova, j.tik_id>>
       IN /\ res_files' = IF pc[w] = "rows"
                          THEN [res_files EXCEPT ![dk] = doc_to_csv(j.tik_id, j.res_csv, @)]
                          ELSE res_files
          /\ status_csvs' = [status_csvs EXCEPT ![j.ktatrova] = h1]
          /\ \E ok \in Outcomes :
               IF ok
               THEN /\ status_file' = [status_file EXCEPT ![j.ktatrova] = to_csv(h1, @)]
                    /\ pc' = [pc EXCEPT ![w] = IF loc[w].rep THEN "check" ELSE "task_done"]
                    /\ UNCHANGED faults
               ELSE /\ pc' = [pc EXCEPT ![w] = "handler"]
                    /\ faults' = faults + 1
                    /\ UNCHANGED status_file
    /\ UNCHANGED <<env, run, mpc, mi, queue, unfinished, cur, loc, dirs,
                   merged_csv, reporters, merged_reporter, data_lock, hist>>

\* an exception out of a call to the browser at the start of a step
SourceRaise(w) ==
    /\ pc[w] \in {"launch", "case", "rows"}
    /\ CanRaise
    /\ pc' = [pc EXCEPT ![w] = "handler"]
    /\ faults' = faults + 1
    /\ UNCHANGED <<env, run, mpc, mi, queue, unfinished, cur, loc, status_csvs,
                   status_file, res_files, dirs, merged_csv, reporters,
                   merged_reporter, data_lock, hist>>

\* an exception inside handle_table_row: reading the cells before the record
\* is added, or at the click after the record was added and counted
RowRaise(w) ==
    /\ pc[w] = "rows"
    /\ Job(w).current_row < Len(Trs(Job(w)))
    /\ CanRaise
    /\ LET j == Job(w)
           doc == Trs(j)[j.current_row + 1]
           j1 == record_row(j, doc)
       IN \/ /\ cur' = [cur EXCEPT ![w].current_row = @ + 1]
             /\ UNCHANGED status_csvs
          \/ /\ must_download(j, doc)
             /\ cur' = [cur EXCEPT ![w] = j1]
             /\ status_csvs' = [status_csvs EXCEPT ![j.ktatrova] =
                    set_field(Holder(w), j.status_index, "docs_in_csv", j1.docs_in_csv)]
    /\ pc' = [pc EXCEPT ![w] = "handler"]
    /\ faults' = faults + 1
    /\ UNCHANGED <<env, run, mpc, mi, queue, unfinished, loc, status_file, res_files,
                   dirs, merged_csv, reporters, merged_reporter, data_lock, hist>>

\* the retry test of DownloadWorker.run, line 394
must_requeue(j) == j.docs_in_csv < j.docs_in_web

\* DownloadWorker.run, the except block: the job's records and the status
\* are saved, and the same job goes back on the queue from its current row
Handler(w) ==
    /\ pc[w] = "handler"
    /\ LET j == Job(w)
           h1 == update_status_csv(j, Holder(w))
           dk == <<j.ktatrova, j.tik_id>>
       IN /\ res_files' = [res_files EXCEPT ![dk] = doc_to_csv(j.tik_id, j.res_csv, @)]
          /\ status_csvs' = [status_csvs EXCEPT ![j.ktatrova] = h1]
          /\ status_file' = [status_file EXCEPT ![j.ktatrova] = to_csv(h1, @)]
          /\ IF must_requeue(j)
             THEN /\ queue' = put(queue, [j EXCEPT !.start_idx = j.current_row])
                  /\ unfinished' = unfinished + 1
                  /\ hist' = [hist EXCEPT !.requeues[JobId(j)] = @ + 1]
             ELSE UNCHANGED <<queue, unfinished, hist>>
    /\ pc' = [pc EXCEPT ![w] = "task_done"]
    /\ loc' = [loc EXCEPT ![w].exc = TRUE]
    /\ UNCHANGED <<env, run, mpc, mi, cur, dirs, merged_csv, reporters,
                   merged_reporter, data_lock, faults>>

\* the exception ends the thread and the task is never marked done
HandlerRaise_no_finally(w) ==
    /\ pc[w] = "handler"
    /\ CanRaise
    /\ LET j == Job(w)
           dk == <<j.ktatrova, j.tik_id>>
       IN /\ res_files' = [res_files EXCEPT ![dk] = doc_to_csv(j.tik_id, j.res_csv, @)]
          /\ status_csvs' = [status_csvs EXCEPT ![j.ktatrova] = update_status_csv(j, Holder(w))]
    /\ pc' = [pc EXCEPT ![w] = "dead"]
    /\ cur' = [cur EXCEPT ![w] = NoJob]
    /\ faults' = faults + 1
    /\ UNCHANGED <<env, run, mpc, mi, queue, unfinished, loc, status_file, dirs,
                   merged_csv, reporters, merged_reporter, data_lock, hist>>

\* the except block itself raises at the save of the status csv: finally
\* marks the task done and the exception ends the thread
HandlerRaise(w) ==
    /\ pc[w] = "handler"
    /\ CanRaise
    /\ LET j == Job(w)
           dk == <<j.ktatrova, j.tik_id>>
       IN /\ res_files' = [res_files EXCEPT ![dk] = doc_to_csv(j.tik_id, j.res_csv, @)]
          /\ status_csvs' = [status_csvs EXCEPT ![j.ktatrova] = update_status_csv(j, Holder(w))]
    /\ unfinished' = unfinished - 1
    /\ pc' = [pc EXCEPT ![w] = "dead"]
    /\ cur' = [cur EXCEPT ![w] = NoJob]
    /\ faults' = faults + 1
    /\ UNCHANGED <<env, run, mpc, mi, queue, loc, status_file, dirs, merged_csv,
                   reporters, merged_reporter, data_lock, hist>>

\* DownloadWorker.run, finally: queue.task_done, and the loop gets again
TaskDone(w) ==
    /\ pc[w] = "task_done"
    /\ unfinished' = unfinished - 1
    /\ pc' = [pc EXCEPT ![w] = "idle"]
    /\ cur' = [cur EXCEPT ![w] = NoJob]
    /\ loc' = [loc EXCEPT ![w] = [rep |-> FALSE, k |-> 0, exc |-> FALSE]]
    /\ UNCHANGED <<env, run, mpc, mi, queue, status_csvs, status_file, res_files,
                   dirs, merged_csv, reporters, merged_reporter, data_lock, faults, hist>>

\* ------------------------------------------------------------ report pass
TikSeq == <<"c1", "c2">>

RECURSIVE ConcatFiles(_, _)
ConcatFiles(kt, ts) ==
    IF ts = <<>> THEN <<>>
    ELSE res_files[<<kt, Head(ts)>>] \o ConcatFiles(kt, Tail(ts))

\* merge_csvs: the per-case documents csvs of every ktatrova in one table
merge_csvs == [kt \in Ktatrovas |-> ConcatFiles(kt, TikSeq)]

Merge ==
    /\ mpc = "merge"
    /\ merged_csv' = merge_csvs
    /\ mpc' = "verify"
    /\ UNCHANGED <<env, run, mi, queue, unfinished, pc, cur, loc, status_csvs,
                   status_file, res_files, dirs, reporters, merged_reporter, data_lock,
                   faults, hist>>

RECURSIVE web_count(_, _)
web_count(rows, counted) ==
    IF rows = <<>> THEN 0
    ELSE (IF Head(rows).tik_id \in counted THEN 0 ELSE Head(rows).docs_in_web)
         + web_count(Tail(rows), counted \cup {Head(rows).tik_id})

\* a Reporter that decides completed from the counters of a row instead of
\* its status field
verify_ktatrova_rederive(kt) ==
    LET rows == status_csvs[kt].rows
        docs == merged_csv[kt]
        dir_docs == UNION {filtered_dir_docs(kt, t) : t \in Tiks \cup {NoTik}}
        agree(r) == /\ r.docs_in_csv = r.docs_in_web
                    /\ r.docs_in_web = r.docs_in_directory
    IN [ktatrova |-> kt,
        gush_chelka_received |-> Len(SelectSeq(env.input, LAMBDA r : r.kt = kt)),
        tiks_received |-> Len(rows),
        completed |-> SelectSeq(rows, LAMBDA r : agree(r)),
        mismatches |-> SelectSeq(rows, LAMBDA r : ~agree(r) /\ r.status = MISMATCH),
        waiting |-> SelectSeq(rows, LAMBDA r : ~agree(r) /\ r.status # MISMATCH),
        docs_in_csv_count |-> Len(docs),
        docs_in_dir_count |-> Cardinality(dir_docs),
        docs_in_web_count |-> web_count(rows, {}),
        in_csv_not_in_dir |-> SelectSeq(docs, LAMBDA x : x \notin dir_docs),
        in_dir_not_in_csv |-> {x \in dir_docs : x \notin Range(docs)}]

\* Reporter.verify_ktatrova
verify_ktatrova(kt) ==
    LET rows == status_csvs[kt].rows
        docs == merged_csv[kt]
        dir_docs == UNION {filtered_dir_docs(kt, t) : t \in Tiks \cup {NoTik}}
        with(st) == SelectSeq(rows, LAMBDA r : r.status = st)
    IN [ktatrova |-> kt,
        gush_chelka_received |-> Len(SelectSeq(env.input, LAMBDA r : r.kt = kt)),
        tiks_received |-> Len(rows),
        completed |-> with(COMPLETED),
        mismatches |-> with(MISMATCH),
        waiting |-> SelectSeq(rows, LAMBDA r : r.status \notin {COMPLETED, MISMATCH}),
        docs_in_csv_count |-> Len(docs),
        docs_in_dir_count |-> Cardinality(dir_docs),
        docs_in_web_count |-> web_count(rows, {}),
        in_csv_not_in_dir |-> SelectSeq(docs, LAMBDA x : x \notin dir_docs),
        in_dir_not_in_csv |-> {x \in dir_docs : x \notin Range(docs)}]

\* verify_and_generate_reports: one Reporter per ktatrova
Verify ==
    /\ mpc = "verify"
    /\ \E kt \in Ktatrovas :
         /\ reporters[kt] = <<>>
         /\ reporters' = [reporters EXCEPT ![kt] = verify_ktatrova(kt)]
         /\ mpc' = IF \A k \in Ktatrovas \ {kt} : reporters[k] # <<>> THEN "reports" ELSE "verify"
    /\ UNCHANGED <<env, run, mi, queue, unfinished, pc, cur, loc, status_csvs,
                   status_file, res_files, dirs, merged_csv, merged_reporter, data_lock,
                   faults, hist>>

\* Reporter(None, None, None): the counts 0 and the lists empty
Reporter ==
    [ktatrova |-> "",
     gush_chelka_received |-> 0, tiks_received |-> 0,
     completed |-> <<>>, mismatches |-> <<>>, waiting |-> <<>>,
     docs_in_csv_count |-> 0, docs_in_dir_count |-> 0, docs_in_web_count |-> 0,
     in_csv_not_in_dir |-> <<>>, in_dir_not_in_csv |-> {}]

\* a merge that keeps the values of the last group only
merge_reports_last(rs) ==
    IF rs = <<>> THEN Reporter
    ELSE LET r == rs[Len(rs)]
         IN [Reporter EXCEPT
                !.gush_chelka_received = r.gush_chelka_received,
                !.tiks_received = r.tiks_received,
                !.completed = r.completed,
                !.mismatches = r.mismatches,
                !.waiting = r.waiting,
                !.docs_in_csv_count = r.docs_in_csv_count,
                !.docs_in_dir_count = r.docs_in_dir_count,
                !.docs_in_web_count = r.docs_in_web_count,
                !.in_csv_not_in_dir = r.in_csv_not_in_dir,
                !.in_dir_not_in_csv = {<<r.ktatrova, x>> : x \in r.in_dir_not_in_csv}]

\* merge_reports: the loop over the reporters; a path of a group's directory
\* is the name of the file under the name of the group
RECURSIVE merge_reports(_)
merge_reports(rs) ==
    IF rs = <<>> THEN Reporter
    ELSE LET m == merge_reports(SubSeq(rs, 1, Len(rs) - 1))
             r == rs[Len(rs)]
         IN [m EXCEPT
                !.gush_chelka_received = @ + r.gush_chelka_received,
                !.tiks_received = @ + r.tiks_received,
                !.completed = @ \o r.completed,
                !.mismatches = @ \o r.mismatches,
                !.waiting = @ \o r.waiting,
                !.docs_in_csv_count = @ + r.docs_in_csv_count,
                !.docs_in_dir_count = @ + r.docs_in_dir_count,
                !.docs_in_web_count = @ + r.docs_in_web_count,
                !.in_csv_not_in_dir = @ \o r.in_csv_not_in_dir,
                !.in_dir_not_in_csv =
                    @ \cup {<<r.ktatrova, x>> : x \in r.in_dir_not_in_csv}]

\* the ktatrovas in the order of the input
GroupOrder == <<"A", "B">>

\* the list verify_and_generate_reports returns
ReporterList ==
    LET order == SelectSeq(GroupOrder, LAMBDA g : g \in DOMAIN reporters)
    IN [i \in 1..Len(order) |-> reporters[order[i]]]

\* main: merge_reports over the Reporters of all ktatrovas
MergeReports ==
    /\ mpc = "reports"
    /\ merged_reporter' = merge_reports(ReporterList)
    /\ mpc' = "done"
    /\ UNCHANGED <<env, run, mi, queue, unfinished, pc, cur, loc, status_csvs,
                   status_file, res_files, dirs, merged_csv, reporters,
                   data_lock, faults, hist>>

\* main() again over the same output directory: read_status_csvs loads every
\* status csv that exists; queue, threads and active sets are new
Restart ==
    /\ mpc = "done"
    /\ run < MaxRuns
    /\ run' = run + 1
    /\ mpc' = "put"
    /\ mi' = 1
    /\ queue' = <<>>
    /\ unfinished' = 0
    /\ pc' = [w \in Workers |-> "idle"]
    /\ cur' = [w \in Workers |-> NoJob]
    /\ loc' = [w \in Workers |-> [rep |-> FALSE, k |-> 0, exc |-> FALSE]]
    /\ status_csvs' = [kt \in Ktatrovas |->
                          IF status_file[kt] # <<>> THEN read_csv(status_file[kt])
                          ELSE CsvTikHolder]
    /\ merged_csv' = [kt \in Ktatrovas |-> <<>>]
    /\ reporters' = [kt \in Ktatrovas |-> <<>>]
    /\ merged_reporter' = <<>>
    /\ data_lock' = NoWorker
    /\ hist' = NoHist(status_file, dirs)
    /\ UNCHANGED <<env, status_file, res_files, dirs, faults>>

Next ==
    \/ Put
    \/ Join
    \/ Merge
    \/ Verify
    \/ MergeReports
    \/ Restart
    \/ \E w \in Workers :
         \/ Get(w)
         \/ Check(w)
         \/ Claim(w)
         \/ Launch(w)
         \/ AddStatus(w)
         \/ Fanout(w)
         \/ NoResults(w)
         \/ Table(w)
         \/ Row(w)
         \/ PageTurn(w)
         \/ SaveUpdate(w)
         \/ SourceRaise(w)
         \/ RowRaise(w)
         \/ Handler(w)
         \/ HandlerRaise(w)
         \/ TaskDone(w)

Spec == Init /\ [][Next]_vars

\* ------------------------------------------- merge_reports on its own
\* the longest list of a Reporter drawn
MaxBucket == 3

\* n rows of status st of ktatrova g
BucketRows(g, n, st) == [i \in 1..n |-> create_status_record(g, "p1", "c1", st, "")]

\* Reporters of ktatrova g whose document paths are under case t: c completed,
\* m mismatch and w waiting rows, n recorded documents that are not on disk,
\* d files on disk that are not recorded
GroupReports(g, t) ==
    {[ktatrova |-> g,
      gush_chelka_received |-> c + m + w,
      tiks_received |-> c + m + w,
      completed |-> BucketRows(g, c, COMPLETED),
      mismatches |-> BucketRows(g, m, MISMATCH),
      waiting |-> BucketRows(g, w, EMPTY),
      docs_in_csv_count |-> c + n,
      docs_in_dir_count |-> c + d,
      docs_in_web_count |-> c + m,
      in_csv_not_in_dir |-> [i \in 1..n |-> doc_path(t, i)],
      in_dir_not_in_csv |-> {doc_path(t, Unrelated) : i \in 1..d}] :
        c \in 0..MaxBucket, m \in 0..1, w \in 0..1, n \in 0..1, d \in 0..1}

\* main after verify_and_generate_reports of two ktatrovas
InitReports ==
    /\ env = Source(<<"c1">>, <<"c1">>, TRUE, OnePage, {}, {}, TRUE)
    /\ dirs = DirsWith({})
    /\ run = 1
    /\ mpc = "reports"
    /\ mi = Len(env.input) + 1
    /\ queue = <<>>
    /\ unfinished = 0
    /\ pc = [w \in Workers |-> "idle"]
    /\ cur = [w \in Workers |-> NoJob]
    /\ loc = [w \in Workers |-> [rep |-> FALSE, k |-> 0, exc |-> FALSE]]
    /\ status_csvs = [kt \in Ktatrovas |-> CsvTikHolder]
    /\ status_file = [kt \in Ktatrovas |-> <<>>]
    /\ res_files = [k \in DirKeys |-> <<>>]
    /\ merged_csv = [kt \in Ktatrovas |-> <<>>]
    /\ \E a \in GroupReports("A", "c1"), b \in GroupReports("B", "c2") :
          reporters = [g \in {"A", "B"} |-> IF g = "A" THEN a ELSE b]
    /\ merged_reporter = <<>>
    /\ data_lock = NoWorker
    /\ faults = 0
    /\ hist = NoHist(status_file, dirs)

SpecReports == InitReports /\ [][MergeReports]_vars

\* --------------------------------- the ledger operations around data_lock
\* data_lock is one Lock of the module, shared by the jobs of every ktatrova.
\* Here every "with data_lock" block of a job is three steps: the worker asks
\* for the lock, takes it when it is free, and does the block and releases.
\* The ledger operations a job does outside such a block are two steps,
\* entering and doing.
LockGroups == {"A", "B"}

\* the ledger operations of a tik job whose case has two pages of one row, in
\* the order of download_docs_and_get_data, and of a job without tik
LedgerOps(j) ==
    IF j.tik_id = NoTik
    THEN <<"add_status_records">>
    ELSE <<"is_active", "docs_in_web", "docs_in_csv", "next_page", "docs_in_csv",
           "update_rows", "update_save">>

\* the operations the source does inside "with data_lock": lines 604, 796,
\* 807, 887 and 951; the save of lines 853-854 and the loop of lines 931-948
\* are outside
Locked(op) == op \in {"add_status_records", "is_active", "docs_in_web",
                      "docs_in_csv", "update_save"}

Op(w) == LedgerOps(cur[w])[loc[w].k]

\* the jobs of a ktatrova: the tik job of parcel p1 for case c1, whose row is
\* in the ledger, and the job of parcel p2 after get_tik_ids
LockLedger(g) == extend(CsvTikHolder, <<create_status_record(g, "p1", "c1", EMPTY, "")>>)

LockJobs ==
    {update_fields(GushChelka(g, "p1", "c1"), LockLedger(g)) : g \in LockGroups}
    \cup {get_tik_ids(GushChelka(g, "p2", NoTik)) : g \in LockGroups}

InitLock ==
    /\ env = Source(<<"c1">>, <<"c1">>, TRUE, TwoPages, {}, {}, TRUE)
    /\ dirs = [k \in LockGroups \X (Tiks \cup {NoTik}) |-> {}]
    /\ run = 1
    /\ mpc = "join"
    /\ mi = Len(env.input) + 1
    /\ queue = <<>>
    /\ unfinished = NumWorkers
    /\ pc = [w \in Workers |-> "before"]
    /\ cur \in {f \in [Workers -> LockJobs] :
                    \A w \in Workers, v \in Workers : w # v => f[w] # f[v]}
    /\ loc = [w \in Workers |-> [rep |-> FALSE, k |-> 1, exc |-> FALSE]]
    /\ status_csvs = [g \in LockGroups |-> LockLedger(g)]
    /\ status_file = [g \in LockGroups |-> LockLedger(g).rows]
    /\ res_files = [k \in LockGroups \X (Tiks \cup {NoTik}) |-> <<>>]
    /\ merged_csv = [g \in LockGroups |-> <<>>]
    /\ reporters = [g \in LockGroups |-> <<>>]
    /\ merged_reporter = <<>>
    /\ data_lock = NoWorker
    /\ faults = 0
    /\ hist = NoHist(status_file, dirs)

\* "with data_lock": the worker is at the acquire
LockRequest(w) ==
    /\ pc[w] = "before"
    /\ Locked(Op(w))
    /\ pc' = [pc EXCEPT ![w] = "wait_lock"]
    /\ UNCHANGED <<env, run, mpc, mi, queue, unfinished, cur, loc, status_csvs,
                   status_file, res_files, dirs, merged_csv, reporters,
                   merged_reporter, data_lock, faults, hist>>

\* Lock.acquire returns when no worker holds the lock
LockAcquire(w) ==
    /\ pc[w] = "wait_lock"
    /\ data_lock = NoWorker
    /\ data_lock' = w
    /\ pc' = [pc EXCEPT ![w] = "inside"]
    /\ UNCHANGED <<env, run, mpc, mi, queue, unfinished, cur, loc, status_csvs,
                   status_file, res_files, dirs, merged_csv, reporters,
                   merged_reporter, faults, hist>>

\* an operation outside "with data_lock" begins
EnterUnlocked(w) ==
    /\ pc[w] = "before"
    /\ ~Locked(Op(w))
    /\ pc' = [pc EXCEPT ![w] = "inside"]
    /\ UNCHANGED <<env, run, mpc, mi, queue, unfinished, cur, loc, status_csvs,
                   status_file, res_files, dirs, merged_csv, reporters,
                   merged_reporter, data_lock, faults, hist>>

\* the operation is done with ledger h1, file rows f1 and job j1; the lock of
\* a "with data_lock" block is released; the job ends after its last operation
Leave(w, h1, f1, j1, ends) ==
    /\ status_csvs' = [status_csvs EXCEPT ![cur[w].ktatrova] = h1]
    /\ status_file' = [status_file EXCEPT ![cur[w].ktatrova] = f1]
    /\ cur' = [cur EXCEPT ![w] = j1]
    /\ loc' = [loc EXCEPT ![w].k = @ + 1]
    /\ pc' = [pc EXCEPT ![w] =
                 IF ends \/ loc[w].k = Len(LedgerOps(cur[w])) THEN "finished" ELSE "before"]
    /\ data_lock' = IF Locked(Op(w)) THEN NoWorker ELSE data_lock
    /\ UNCHANGED <<env, run, mpc, mi, queue, unfinished, res_files, dirs,
                   merged_csv, reporters, merged_reporter, faults, hist>>

\* CsvTikHolder.add, lines 1233-1244: eleven appends, one column after the
\* other; from the first to the last the columns have different lengths
StepAddBegin(w) ==
    /\ pc[w] = "inside"
    /\ Op(w) = "add_status_records"
    /\ pc' = [pc EXCEPT ![w] = "appending"]
    /\ UNCHANGED <<env, run, mpc, mi, queue, unfinished, cur, loc, status_csvs,
                   status_file, res_files, dirs, merged_csv, reporters,
                   merged_reporter, data_lock, faults, hist>>

\* a worker is between the first and the last append of a record to ledger g
Ragged(g) == \E v \in Workers : pc[v] = "appending" /\ cur[v].ktatrova = g

\* add_status_records, lines 796-800
StepAddStatus(w) ==
    /\ pc[w] = "appending"
    /\ Op(w) = "add_status_records"
    /\ LET h1 == extend(Holder(w), status_records(Job(w)))
       IN Leave(w, h1, to_csv(h1, status_file[Job(w).ktatrova]), Job(w), FALSE)

\* is_active, lines 604-611: a tik that is active ends the job
StepIsActive(w) ==
    /\ pc[w] = "inside"
    /\ Op(w) = "is_active"
    /\ LET j == Job(w)
           h == Holder(w)
       IN IF is_active(j.tik_id, h)
          THEN Leave(w, h, status_file[j.ktatrova], j, TRUE)
          ELSE Leave(w, [h EXCEPT !.tik_ids_queued = @ \cup {j.tik_id}],
                     status_file[j.ktatrova], j, FALSE)

\* handle_table, lines 806-811
StepWebCount(w) ==
    /\ pc[w] = "inside"
    /\ Op(w) = "docs_in_web"
    /\ LET j == Job(w)
           web == get_web_count(j.tik_id)
           h1 == set_field(Holder(w), j.status_index, "docs_in_web", web)
       IN Leave(w, h1, to_csv(h1, status_file[j.ktatrova]),
                [j EXCEPT !.current_page = 1, !.docs_in_web = web], FALSE)

\* handle_table_row, lines 883-888
StepRowCount(w) ==
    /\ pc[w] = "inside"
    /\ Op(w) = "docs_in_csv"
    /\ LET j == Job(w)
           j1 == record_row(j, Trs(j)[j.current_row + 1])
       IN Leave(w, set_field(Holder(w), j.status_index, "docs_in_csv", j1.docs_in_csv),
                status_file[j.ktatrova], j1, FALSE)

\* handle_table, lines 849-854
StepNextPage(w) ==
    /\ pc[w] = "inside"
    /\ Op(w) = "next_page"
    /\ LET j == Job(w)
           h == Holder(w)
           j1 == update_fields([j EXCEPT !.current_page = @ + 1, !.start_idx = 0], h)
       IN IF Ragged(j.ktatrova)
          THEN \* to_csv, lines 1255-1266: range(len(self.ktatrova)) reaches an
               \* index that a shorter column does not have, IndexError
               /\ cur' = [cur EXCEPT ![w] = j1]
               /\ pc' = [pc EXCEPT ![w] = "finished"]
               /\ faults' = faults + 1
               /\ UNCHANGED <<env, run, mpc, mi, queue, unfinished, loc, status_csvs,
                              status_file, res_files, dirs, merged_csv, reporters,
                              merged_reporter, data_lock, hist>>
          ELSE Leave(w, h, to_csv(h, status_file[j.ktatrova]),
                     [j1 EXCEPT !.current_row = 0], FALSE)

\* update_status_csv, the loop of lines 931-948
StepUpdateRows(w) ==
    /\ pc[w] = "inside"
    /\ Op(w) = "update_rows"
    /\ Leave(w, update_status_csv(Job(w), Holder(w)), status_file[Job(w).ktatrova],
             Job(w), FALSE)

\* update_status_csv, lines 951-952
StepUpdateSave(w) ==
    /\ pc[w] = "inside"
    /\ Op(w) = "update_save"
    /\ Leave(w, Holder(w), to_csv(Holder(w), status_file[Job(w).ktatrova]), Job(w), FALSE)

NextLock ==
    \E w \in Workers :
        \/ LockRequest(w)
        \/ LockAcquire(w)
        \/ EnterUnlocked(w)
        \/ StepAddBegin(w)
        \/ StepAddStatus(w)
        \/ StepIsActive(w)
        \/ StepWebCount(w)
        \/ StepRowCount(w)
        \/ StepNextPage(w)
        \/ StepUpdateRows(w)
        \/ StepUpdateSave(w)

SpecLock == InitLock /\ [][NextLock]_vars

\* ------------------------------------------------------------ properties
Running == {w \in Workers : pc[w] \notin {"idle", "dead"}}

\* the jobs that took the active-set entry of a case in this run
Claimants(kt, tik) == {id \in JobIds : <<kt, tik, id>> \in hist.claimed}

\* the jobs that opened the pages of a case in this run
Launchers(kt, tik) == {id \in JobIds : <<kt, tik, id>> \in hist.launched}

\* the row of the job's own (ktatrova, gc, tik_id) key is completed
KeyCompleted(j, h) ==
    /\ j.tik_id # NoTik
    /\ StatusKey(j.ktatrova, j.gc, j.tik_id) \in DOMAIN h.key_to_index
    /\ h.rows[h.key_to_index[StatusKey(j.ktatrova, j.gc, j.tik_id)]].status = COMPLETED

\* C1: of the jobs bound to one case in a run at most one takes the case's
\* entry in the active set, only that job opens the case's pages or holds
\* records of the case, the entry is there exactly when a job took it, and a
\* job that did not take it comes to its end with nothing fetched, another
\* job having taken the case unless the job's own row was completed
C1_NoDuplicateClaim ==
    \A kt \in Ktatrovas, tik \in Tiks :
        /\ Cardinality(Claimants(kt, tik)) <= 1
        /\ Launchers(kt, tik) \subseteq Claimants(kt, tik)
        /\ tik \in status_csvs[kt].tik_ids_queued <=> Claimants(kt, tik) # {}
        /\ \A w \in Running :
              cur[w].ktatrova = kt /\ cur[w].tik_id = tik
              /\ JobId(cur[w]) \notin Claimants(kt, tik)
              => /\ pc[w] \in {"check", "claim", "task_done"}
                 /\ \A x \in Range(cur[w].res_csv) : x[1] # tik
                 /\ pc[w] = "task_done"
                    => \/ Claimants(kt, tik) # {}
                       \/ KeyCompleted(cur[w], status_csvs[kt])

\* two jobs were bound to case c1, one took it and fetched a document, the
\* other found the case active, its row not completed, and is at its end
C1_Witness ==
    \E w \in Running, kt \in Ktatrovas :
        /\ pc[w] = "task_done"
        /\ cur[w].ktatrova = kt
        /\ cur[w].tik_id = "c1"
        /\ JobId(cur[w]) \notin Claimants(kt, "c1")
        /\ Claimants(kt, "c1") # {}
        /\ ~is_completed(get_indexes_from_status(cur[w], status_csvs[kt]), status_csvs[kt])
        /\ \E d \in DocsOf("c1") : <<kt, "c1", d>> \in hist.requested

\* the statuses of the rows of a status csv, in order
Statuses(rows) == [i \in DOMAIN rows |-> rows[i].status]

\* every parcel of the input has a row in the persisted ledger the run
\* started from, and every row of it is completed
StartedAllCompleted ==
    /\ \A i \in DOMAIN env.input :
          \E r \in Range(hist.start_file[env.input[i].kt]) : r.gc = env.input[i].gc
    /\ \A kt \in Ktatrovas :
          \A r \in Range(hist.start_file[kt]) : r.status = COMPLETED

C3_CounterConsistency ==
    \A kt \in Ktatrovas :
        \A r \in Range(status_csvs[kt].rows) :
            r.status = COMPLETED
            => /\ r.docs_in_csv = r.docs_in_web
               /\ r.docs_in_web = r.docs_in_directory
               /\ r.docs_in_csv_not_in_dir = 0
               /\ r.docs_in_dir_not_in_csv = 0

\* C4 as stated: a job is put back on the queue at most docs_in_web times
C4_RetryBound ==
    /\ \A i \in DOMAIN queue : hist.requeues[JobId(queue[i])] <= queue[i].docs_in_web
    /\ \A w \in Running : hist.requeues[JobId(cur[w])] <= cur[w].docs_in_web

\* C5: the step in which queue.join returns is taken only in a state where
\* every input job was put, no job is queued and no worker runs a job, the
\* jobs put by fan-out and the jobs put back by the except block included
C5_JoinBarrier ==
    [][(mpc = "join" /\ mpc' # "join")
       => /\ mi > Len(env.input)
          /\ queue = <<>>
          /\ Running = {}]_vars

\* join has returned in a run in which fan-out put a child job and the
\* except block put a job back
C5_Witness ==
    /\ mpc = "merge"
    /\ \E id \in JobIds : hist.puts[id] > 0
    /\ \E id \in JobIds : hist.requeues[id] > 0

\* C6: the queue's count of unfinished tasks is the number of jobs queued
\* plus the number of jobs workers are running, whether a run returned,
\* faulted, was put back or ended its thread
C6_QueueAccounting ==
    unfinished = Len(queue) + Cardinality(Running)

\* a thread has died in the except block while another worker runs a job
\* and a job is queued
C6_Witness ==
    /\ \E w \in Workers : pc[w] = "dead"
    /\ Running # {}
    /\ queue # <<>>

\* C7: while the csvs are merged and the ktatrovas verified, and after, no
\* job is queued and no worker runs one; the merge and the verification
\* steps change neither the ledger, the status csv, the documents csvs nor
\* the directories
C7_PhaseOrdering ==
    /\ [](mpc \in {"merge", "verify", "reports", "done"}
          => (queue = <<>> /\ Running = {} /\ unfinished = 0))
    /\ [][(mpc \in {"merge", "verify", "reports"})
          => (/\ status_csvs' = status_csvs
              /\ status_file' = status_file
              /\ res_files' = res_files
              /\ dirs' = dirs
              /\ queue' = queue
              /\ cur' = cur)]_vars

\* the reports of a run that fetched documents are made
C7_Witness ==
    /\ mpc = "done"
    /\ hist.requested # {}
    /\ \E kt \in Ktatrovas :
          /\ merged_csv[kt] # <<>>
          /\ reporters[kt] # <<>>
          /\ reporters[kt].tiks_received > 0

\* the rows of the job's parcel
ParcelRows(j, h) == SelectSeq(h.rows, LAMBDA r : r.ktatrova = j.ktatrova /\ r.gc = j.gc)

\* what the resume check is about: a job taken from the queue whose own key
\* is completed, or a parcel job with rows in the ledger, all completed
ResumeDone(j, h) ==
    \/ KeyCompleted(j, h)
    \/ /\ j.tik_id = NoTik
       /\ ParcelRows(j, h) # <<>>
       /\ \A r \in Range(ParcelRows(j, h)) : r.status = COMPLETED

\* C8: a job taken from the queue whose key is completed, or a parcel job
\* whose rows are all completed, goes from the check straight to its end:
\* the step opens no page, asks for no download, adds no record, puts no job
\* and changes no field of the ledger or its file; and no job is put back
\* to walk on from a row while its key is completed
C8_ResumeCheck ==
    /\ [](\A i \in DOMAIN queue :
            queue[i].start_idx > 0 => ~KeyCompleted(queue[i], status_csvs[queue[i].ktatrova]))
    /\ [][\A w \in Workers :
            (/\ pc[w] = "check"
             /\ ~loc[w].rep
             /\ ResumeDone(cur[w], status_csvs[cur[w].ktatrova])
             /\ pc'[w] # "check")
            => (/\ pc'[w] = "task_done"
                /\ cur'[w].res_csv = cur[w].res_csv
                /\ status_csvs' = status_csvs
                /\ status_file' = status_file
                /\ res_files' = res_files
                /\ dirs' = dirs
                /\ queue' = queue
                /\ unfinished' = unfinished
                /\ hist'.launched = hist.launched
                /\ hist'.claimed = hist.claimed
                /\ hist'.requested = hist.requested
                /\ hist'.puts = hist.puts)]_vars

\* a job born for a case returned at the check, its key completed, having
\* taken no case and holding no record
C8_Witness ==
    \E w \in Running :
        /\ pc[w] = "task_done"
        /\ cur[w].born # NoTik
        /\ JobId(cur[w]) \in hist.returned
        /\ KeyCompleted(cur[w], status_csvs[cur[w].ktatrova])
        /\ \A t \in Tiks : JobId(cur[w]) \notin Claimants(cur[w].ktatrova, t)
        /\ cur[w].res_csv = <<>>

\* the row add_status_records makes for a search without results
NoResultsRow(j) ==
    [ktatrova |-> j.ktatrova, gc |-> j.gc, tik_id |-> NoTik, status |-> COMPLETED,
     no_results |-> NO_RESULTS, docs_in_csv |-> 0, docs_in_directory |-> 0,
     docs_in_web |-> 0, docs_in_csv_not_in_dir |-> 0, docs_in_dir_not_in_csv |-> 0]

\* C9: when discovery found no tik and the no-results message showed, the
\* step that adds the status records and saves appends one row to the ledger,
\* the parcel's only row, with empty tik_id, status completed and no_results
\* set, writes the ledger to its file, puts nothing on the queue and ends the
\* job
C9_DiscoveryNoResults ==
    [][\A w \in Workers :
        (/\ pc[w] = "add_status"
         /\ cur[w].tik_ids = <<>>
         /\ cur[w].no_results = NO_RESULTS
         /\ pc'[w] \notin {"add_status", "handler"})
        => (/\ pc'[w] = "task_done"
            /\ ParcelRows(cur[w], status_csvs[cur[w].ktatrova]) = <<>>
            /\ status_csvs'[cur[w].ktatrova].rows =
                   Append(status_csvs[cur[w].ktatrova].rows, NoResultsRow(cur[w]))
            /\ status_file'[cur[w].ktatrova] = status_csvs'[cur[w].ktatrova].rows
            /\ queue' = queue
            /\ unfinished' = unfinished
            /\ hist'.puts = hist.puts)]_vars

\* a parcel job whose discovery found nothing is at its end, the completed
\* no-results row of its parcel in the ledger file, no job put for the parcel
C9_Witness ==
    \E w \in Running :
        /\ pc[w] = "task_done"
        /\ ~loc[w].exc
        /\ cur[w].tik_id = NoTik
        /\ cur[w].tik_ids = <<>>
        /\ cur[w].no_results = NO_RESULTS
        /\ ParcelRows(cur[w], [rows |-> status_file[cur[w].ktatrova]]) = <<NoResultsRow(cur[w])>>
        /\ \A t \in Tiks : hist.puts[<<cur[w].ktatrova, cur[w].gc, t>>] = 0

Consistent(r) ==
    /\ r.docs_in_csv = r.docs_in_web
    /\ r.docs_in_web = r.docs_in_directory
    /\ r.docs_in_csv_not_in_dir = 0
    /\ r.docs_in_dir_not_in_csv = 0

\* the worker's next step evaluates the completion rule for its job's tik
Evaluating(w) ==
    \/ pc[w] \in {"update", "handler"}
    \/ /\ pc[w] = "rows"
       /\ cur[w].current_row >= Len(Trs(cur[w]))
       /\ ~more_pages(cur[w])

\* C11 as stated, the direction from the outcome to the counts: whenever the
\* rule is evaluated for a tik, a row of the tik that was not completed
\* becomes completed only with the three counts equal and both discrepancy
\* counts 0, and becomes mismatch otherwise
C11_CompletionRule ==
    \A w \in Running :
        Evaluating(w) =>
            LET h == Holder(w)
                h1 == update_status_csv(Job(w), h)
            IN \A i \in DOMAIN h.rows :
                 (h.rows[i].tik_id = Job(w).tik_id /\ h.rows[i].status # COMPLETED)
                 => IF Consistent(h1.rows[i])
                    THEN h1.rows[i].status \in {COMPLETED, MISMATCH}
                    ELSE h1.rows[i].status = MISMATCH

\* the row of the job's key
KeyRow(kt, gc, tik) ==
    status_csvs[kt].rows[status_csvs[kt].key_to_index[StatusKey(kt, gc, tik)]]

\* the case of C12: no fault, some declared documents of the tik never
\* arrive, none of them and no other file was in the directory before
TimeoutCase(kt, tik) ==
    /\ env.reliable
    /\ env.never[tik] # {}
    /\ env.never[tik] \subseteq DocsOf(tik)
    /\ hist.start_dirs[<<kt, tik>>] \subseteq (DocsOf(tik) \ env.never[tik])

\* C12: when the queue is drained after a walk without fault of a tik with
\* N declared rows of which k >= 1 never arrive, the row of the job that
\* walked it is mismatch with docs_in_web N, docs_in_csv N, docs_in_directory
\* N - k, docs_in_csv_not_in_dir k, docs_in_dir_not_in_csv 0, and the job was
\* never put back
C12_DownloadTimeout ==
    \A kt \in Ktatrovas, tik \in Tiks :
        \A id \in Claimants(kt, tik) :
            (TimeoutCase(kt, tik) /\ mpc \in {"merge", "verify", "reports", "done"})
            => /\ StatusKey(kt, id[2], tik) \in DOMAIN status_csvs[kt].key_to_index
               /\ KeyRow(kt, id[2], tik) =
                    [ktatrova |-> kt, gc |-> id[2], tik_id |-> tik,
                     status |-> MISMATCH, no_results |-> "",
                     docs_in_web |-> env.web[tik],
                     docs_in_csv |-> env.web[tik],
                     docs_in_directory |-> env.web[tik] - Cardinality(env.never[tik]),
                     docs_in_csv_not_in_dir |-> Cardinality(env.never[tik]),
                     docs_in_dir_not_in_csv |-> 0]
               /\ hist.requeues[id] = 0

\* the first run over case c1 (2 declared rows, the second never arrives,
\* nothing on disk before) has drained
C12_Witness ==
    /\ run = 1
    /\ mpc = "merge"
    /\ TimeoutCase("A", "c1")
    /\ env.web["c1"] = 2
    /\ Cardinality(env.never["c1"]) = 1
    /\ hist.start_dirs[<<"A", "c1">>] = {}
    /\ Claimants("A", "c1") # {}

\* C18 as stated, for a source that raises nothing: between the steps of the
\* jobs the persisted status csv holds the rows of the ledger in memory
C18_WriteThrough ==
    env.reliable =>
        \A kt \in Ktatrovas :
            status_csvs[kt].rows # <<>> => status_file[kt] = status_csvs[kt].rows

\* the document records of a documents csv (the all-blank row is none)
Records(f) == SelectSeq(f, LAMBDA x : x # BlankDoc)

IsPrefix(a, b) == Len(a) <= Len(b) /\ SubSeq(b, 1, Len(a)) = a

\* C19 as stated: no step removes or changes a record of a tik's documents
\* csv; the records of the file only grow
C19_AppendOnly ==
    [][\A dk \in DirKeys : IsPrefix(Records(res_files[dk]), Records(res_files'[dk]))]_vars

\* C20 as stated: every row of the ledger has docs_in_csv <= docs_in_web
C20_InProgress ==
    \A kt \in Ktatrovas :
        \A r \in Range(status_csvs[kt].rows) : r.docs_in_csv <= r.docs_in_web

\* the documents the record files of a ktatrova name, as merged
RecordedDocs(kt) == Range(Records(merged_csv[kt]))

\* the files under the ktatrova's directory that the program did not create
DirDocs(kt) == UNION {filtered_dir_docs(kt, t) : t \in Tiks \cup {NoTik}}

\* C13 as stated: the report of a ktatrova lists as in the csv and not in the
\* directory exactly the recorded documents whose file is absent, and as in
\* the directory and not in the csv exactly the files no recorded document
\* names
C13_Reconciliation ==
    \A kt \in Ktatrovas :
        (mpc = "done" /\ reporters[kt] # <<>>)
        => /\ Range(reporters[kt].in_csv_not_in_dir) = RecordedDocs(kt) \ DirDocs(kt)
           /\ reporters[kt].in_dir_not_in_csv = DirDocs(kt) \ RecordedDocs(kt)

\* the number of the report's three lists that hold the row
Buckets(rep, r) ==
    Cardinality({b \in {"completed", "mismatches", "waiting"} : r \in Range(rep[b])})

\* C14: in the report of a ktatrova every row of its status csv is in exactly
\* one of completed, mismatches and waiting, chosen by the row's status field
\* alone (completed, mismatch, anything else), the three lists together have
\* as many entries as the status csv has rows, and the step that builds the
\* report changes neither the status csv in memory nor its file
C14_ReportBuckets ==
    /\ [](\A kt \in Ktatrovas :
            reporters[kt] # <<>> =>
                LET rep == reporters[kt]
                    rows == status_csvs[kt].rows
                IN /\ \A i \in DOMAIN rows :
                        /\ Buckets(rep, rows[i]) = 1
                        /\ rows[i].status = COMPLETED => rows[i] \in Range(rep.completed)
                        /\ rows[i].status = MISMATCH => rows[i] \in Range(rep.mismatches)
                        /\ rows[i].status \notin {COMPLETED, MISMATCH}
                              => rows[i] \in Range(rep.waiting)
                   /\ Len(rep.completed) + Len(rep.mismatches) + Len(rep.waiting) = Len(rows)
                   /\ rep.tiks_received = Len(rows))
    /\ [][reporters' # reporters /\ mpc = "verify"
            => status_csvs' = status_csvs /\ status_file' = status_file]_vars

\* a report with three rows, some completed and some mismatch
C14_Witness ==
    /\ reporters["A"] # <<>>
    /\ reporters["A"].tiks_received = 3
    /\ reporters["A"].completed # <<>>
    /\ reporters["A"].mismatches # <<>>

\* C15: the merged Reporter of two groups has, for the received parcels and
\* cases and for the three document counters, the sum of the two groups'
\* values, and for completed, mismatches, waiting and the two discrepancy
\* lists the first group's entries followed by the second's; groups with 3
\* and 2 completed and 1 and 0 mismatches give 5 completed and 1 mismatch
C15_MergeReports ==
    merged_reporter # <<>> =>
        LET a == reporters["A"]
            b == reporters["B"]
            m == merged_reporter
        IN /\ m.gush_chelka_received = a.gush_chelka_received + b.gush_chelka_received
           /\ m.tiks_received = a.tiks_received + b.tiks_received
           /\ m.completed = a.completed \o b.completed
           /\ m.mismatches = a.mismatches \o b.mismatches
           /\ m.waiting = a.waiting \o b.waiting
           /\ m.docs_in_csv_count = a.docs_in_csv_count + b.docs_in_csv_count
           /\ m.docs_in_dir_count = a.docs_in_dir_count + b.docs_in_dir_count
           /\ m.docs_in_web_count = a.docs_in_web_count + b.docs_in_web_count
           /\ m.in_csv_not_in_dir = a.in_csv_not_in_dir \o b.in_csv_not_in_dir
           /\ Cardinality(m.in_dir_not_in_csv) =
                 Cardinality(a.in_dir_not_in_csv) + Cardinality(b.in_dir_not_in_csv)
           /\ \A x \in a.in_dir_not_in_csv : <<"A", x>> \in m.in_dir_not_in_csv
           /\ \A x \in b.in_dir_not_in_csv : <<"B", x>> \in m.in_dir_not_in_csv
           /\ (/\ Len(a.completed) = 3 /\ Len(a.mismatches) = 1
               /\ Len(b.completed) = 2 /\ Len(b.mismatches) = 0)
              => (Len(m.completed) = 5 /\ Len(m.mismatches) = 1)

\* the reports (completed 3, mismatch 1) and (completed 2, mismatch 0), each
\* with a discrepancy of both kinds, are merged
C15_Witness ==
    /\ merged_reporter # <<>>
    /\ DOMAIN reporters = {"A", "B"}
    /\ Len(reporters["A"].completed) = 3 /\ Len(reporters["A"].mismatches) = 1
    /\ Len(reporters["B"].completed) = 2 /\ Len(reporters["B"].mismatches) = 0
    /\ \A g \in {"A", "B"} :
          /\ reporters[g].in_csv_not_in_dir # <<>>
          /\ reporters[g].in_dir_not_in_csv # {}

\* C16 as stated: no two workers are at the same time inside a
\* read-modify-write or a flush of the ledger of one ktatrova
C16_AtomicLedger ==
    \A w \in Workers, v \in Workers :
        ~(/\ w # v
          /\ pc[w] = "inside"
          /\ pc[v] = "inside"
          /\ cur[w].ktatrova = cur[v].ktatrova)

\* C17 as stated: a worker that waits for the lock waits for a worker that
\* runs a job of the same ktatrova
C17_LockPerGroup ==
    \A w \in Workers :
        (pc[w] = "wait_lock" /\ data_lock # NoWorker)
        => cur[data_lock].ktatrova = cur[w].ktatrova

\* C21 as stated: no step changes a row of status mismatch to completed
C21_StickyMismatch ==
    [][\A kt \in Ktatrovas :
          \A i \in DOMAIN status_csvs[kt].rows :
             (/\ i \in DOMAIN status_csvs'[kt].rows
              /\ status_csvs[kt].rows[i].status = MISMATCH)
             => status_csvs'[kt].rows[i].status # COMPLETED]_vars

\* C22 as stated: a parcel whose discovery gives no tik and no no-results
\* message has no completed row, in the ledger, in its file or in a report
C22_DiscoveryFault ==
    \A kt \in Ktatrovas :
        LET unresolved(r) == env.disc[r.gc] = <<>> /\ ~env.msg[r.gc]
        IN /\ \A r \in Range(status_csvs[kt].rows) \cup Range(status_file[kt]) :
                unresolved(r) => r.status # COMPLETED
           /\ reporters[kt] # <<>> =>
                \A r \in Range(reporters[kt].completed) : ~unresolved(r)

\* C23 as stated: every worker of the pool is alive in every state, whatever
\* faults its jobs met
C23_FaultContainment ==
    \A w \in Workers : pc[w] # "dead"

\* the step puts the job of worker w back on the queue, from its current row
PutBack(w) == queue' = Append(queue, [cur[w] EXCEPT !.start_idx = cur[w].current_row])

\* C24 as stated: when the run of a job has faulted, the worker's handling of
\* the fault puts the same job back on the queue if and only if the job's
\* docs_in_csv is less than its docs_in_web; otherwise the queue is left as
\* it is; a job without tik is never put back
C24_RequeueCondition ==
    [][\A w \in Workers :
          (pc[w] = "handler" /\ pc'[w] # "handler")
          => /\ PutBack(w) <=> cur[w].docs_in_csv < cur[w].docs_in_web
             /\ ~PutBack(w) => queue' = queue
             /\ cur[w].tik_id = NoTik => ~PutBack(w)]_vars

\* C25 as stated: a worker that takes a job that was put back after a fault
\* opens the job's page next and walks on from the job's cursor, whatever
\* the cursor is
C25_RequeuedResumes ==
    [][\A w \in Workers :
          (/\ pc[w] = "idle"
           /\ pc'[w] # "idle"
           /\ hist.requeues[JobId(cur'[w])] > 0)
          => /\ pc'[w] = "launch"
             /\ loc'[w].rep]_vars

\* the document rows of the job's case that its walk has passed: the rows of
\* the pages before the current one and the rows of the current page up to
\* the cursor
Passed(j) ==
    {doc_path(j.tik_id, PagesOf(j.tik_id)[p][r]) :
        <<p, r>> \in {x \in (1..j.current_page) \X (1..2) :
                        /\ x[1] <= Len(PagesOf(j.tik_id))
                        /\ x[2] <= Len(PagesOf(j.tik_id)[x[1]])
                        /\ x[1] = j.current_page => x[2] <= j.current_row}}

\* C26 as stated: while a job walks the rows of its case, in a first or a
\* later attempt, every row its walk has passed is recorded, and no row is
\* recorded twice
C26_ResumeCursor ==
    \A w \in Workers :
        (pc[w] = "rows" /\ cur[w].tik_id \in Tiks)
        => /\ Passed(cur[w]) \subseteq Range(cur[w].res_csv)
           /\ Cardinality(Range(cur[w].res_csv)) = Len(cur[w].res_csv)


\* C27: once a row of a status csv has status completed, no step (completion
\* rule of any job of its case, fault handler, flush, re-queued attempt) gives
\* it another status: the rows in memory keep it as long as the process
\* lives, the rows of the file keep it over every step, the next run over
\* the same directory included
C27_CompletedSticky ==
    [][\A kt \in Ktatrovas :
          /\ run' = run =>
                \A i \in DOMAIN status_csvs[kt].rows :
                   status_csvs[kt].rows[i].status = COMPLETED
                   => /\ i \in DOMAIN status_csvs'[kt].rows
                      /\ status_csvs'[kt].rows[i].status = COMPLETED
          /\ \A i \in DOMAIN status_file[kt] :
                status_file[kt][i].status = COMPLETED
                => /\ i \in DOMAIN status_file'[kt]
                   /\ status_file'[kt][i].status = COMPLETED]_vars

\* a completed row of a case whose counters were rewritten by a later
\* evaluation that did not satisfy the completion rule
C27_Witness ==
    \E kt \in Ktatrovas : \E i \in DOMAIN status_file[kt] :
        /\ status_file[kt][i].status = COMPLETED
        /\ status_file[kt][i].tik_id \in Tiks
        /\ status_file[kt][i].docs_in_csv # status_file[kt][i].docs_in_web


\* a turn of the row loop of worker w that handle_table_row ended without a
\* fault: the walk stays in the loop, one row further
RowHandled(w) ==
    /\ pc[w] = "rows" /\ pc'[w] = "rows"
    /\ cur'[w].current_row = cur[w].current_row + 1

\* C28: every document row handled appends one record with the row's path and
\* raises the job's docs_in_csv by one, written to the job's status row; the
\* download is requested when no file exists at the path at that moment, and
\* when the file exists nothing is requested and nothing is waited for
C28_ExistingArtifactSkip ==
    [][\A w \in Workers :
          RowHandled(w) =>
             LET j == cur[w]
                 doc == Trs(j)[j.current_row + 1]
                 req == <<j.ktatrova, j.tik_id, doc>>
                 exists == doc \in dirs[<<j.ktatrova, j.tik_id>>]
                 h == status_csvs'[j.ktatrova]
             IN /\ cur'[w].res_csv = Append(j.res_csv, doc_path(j.tik_id, doc))
                /\ cur'[w].docs_in_csv = j.docs_in_csv + 1
                /\ h.rows[PyIndex(j.status_index, Len(h.rows))].docs_in_csv
                      = cur'[w].docs_in_csv
                /\ ~exists => req \in hist'.requested
                /\ exists => /\ hist'.requested = hist.requested
                             /\ dirs' = dirs
                             /\ faults' = faults]_vars

\* a row recorded in this run whose file was there and was not asked for
C28_Witness ==
    \E w \in Workers : \E doc \in DocsOf("c1") \cup DocsOf("c2") :
        /\ pc[w] = "rows"
        /\ cur[w].tik_id \in Tiks
        /\ doc_path(cur[w].tik_id, doc) \in Range(cur[w].res_csv)
        /\ doc \in hist.start_dirs[<<cur[w].ktatrova, cur[w].tik_id>>]
        /\ <<cur[w].ktatrova, cur[w].tik_id, doc>> \notin hist.requested


\* the jobs queued before the step keep their places at the front of the queue
KeepsOrder == \A i \in DOMAIN queue : i \in DOMAIN queue' /\ queue'[i] = queue[i]

\* C29: a worker takes the job put first among those queued; a job put back by
\* the fault handler and every child put by the fan-out goes behind all the
\* jobs queued at that moment, which keep their order
C29_FIFODispatch ==
    [][/\ \A w \in Workers :
             /\ (pc[w] = "idle" /\ pc'[w] \in {"check", "launch"})
                => /\ queue # <<>>
                   /\ cur'[w] = Head(queue)
                   /\ queue' = Tail(queue)
             /\ (pc[w] = "handler" /\ pc'[w] # "handler" /\ queue' # queue)
                => /\ Len(queue') = Len(queue) + 1
                   /\ KeepsOrder
                   /\ JobId(queue'[Len(queue')]) = JobId(cur[w])
             /\ (pc[w] = "fanout" /\ loc'[w].k # loc[w].k)
                => /\ Len(queue') = Len(queue) + 1
                   /\ KeepsOrder
                   /\ queue'[Len(queue')].born = tiks_to_put(cur[w])[loc'[w].k]
       /\ Len(queue') > Len(queue) => KeepsOrder]_vars

\* a job put back by the handler waits behind a child of the fan-out that was
\* queued before it
C29_Witness ==
    /\ Len(queue) >= 2
    /\ hist.requeues[JobId(queue[Len(queue)])] > 0
    /\ hist.requeues[JobId(queue[1])] = 0
    /\ hist.puts[JobId(queue[1])] > 0


\* the composite key of a row of the ledger
RowKey(r) == StatusKey(r.ktatrova, r.gc, r.tik_id)

\* C30: in every ledger, loaded from its file or extended by appends, the
\* index maps every key that a row holds to the position of a row that holds
\* exactly that key, no other key is in the index, and next_index is the
\* number of rows
C30_LedgerIndexConsistency ==
    \A kt \in Ktatrovas :
        LET h == status_csvs[kt]
        IN /\ h.next_index = Len(h.rows)
           /\ DOMAIN h.key_to_index = {RowKey(h.rows[i]) : i \in DOMAIN h.rows}
           /\ \A k \in DOMAIN h.key_to_index :
                 /\ h.key_to_index[k] \in DOMAIN h.rows
                 /\ RowKey(h.rows[h.key_to_index[k]]) = k

\* a ledger loaded from its file by this run and then extended by an append
C30_Witness ==
    \E kt \in Ktatrovas :
        /\ run > 1
        /\ hist.start_file[kt] # <<>>
        /\ Len(status_csvs[kt].rows) > Len(hist.start_file[kt])


\* ------------------------------------------------ two ktatrovas in one run
\* activate_threads, lines 181-192: every ktatrova of the input has a
\* CsvTikHolder of its own, and every job gets the holder of its ktatrova
GroupNames == {"A", "B"}
GroupInput == <<[kt |-> "A", gc |-> "p1"], [kt |-> "B", gc |-> "p1"]>>
GroupDirKeys == GroupNames \X (Tiks \cup {NoTik})
GroupJobIds == GroupNames \X Gcs \X (Tiks \cup {NoTik})

\* the same parcel in both ktatrovas, leading to the same cases
\* (two cases on a reliable source, one case on a source that can raise)
GroupSources ==
    {[Source(<<"c1", "c2">>, <<>>, TRUE, TwoPages, {}, nr, TRUE) EXCEPT !.input = GroupInput] :
        nr \in {{}, {"c2"}}}
    \cup {[Source(<<"c1">>, <<>>, TRUE, OnePage, {}, {}, FALSE) EXCEPT !.input = GroupInput]}

InitGroups ==
    /\ env \in GroupSources
    /\ dirs = [k \in GroupDirKeys |-> {}]
    /\ run = 1
    /\ mpc = "put"
    /\ mi = 1
    /\ queue = <<>>
    /\ unfinished = 0
    /\ pc = [w \in Workers |-> "idle"]
    /\ cur = [w \in Workers |-> NoJob]
    /\ loc = [w \in Workers |-> [rep |-> FALSE, k |-> 0, exc |-> FALSE]]
    /\ status_csvs = [kt \in GroupNames |-> CsvTikHolder]
    /\ status_file = [kt \in GroupNames |-> <<>>]
    /\ res_files = [k \in GroupDirKeys |-> <<>>]
    /\ merged_csv = [kt \in GroupNames |-> <<>>]
    /\ reporters = [kt \in GroupNames |-> <<>>]
    /\ merged_reporter = <<>>
    /\ data_lock = NoWorker
    /\ faults = 0
    /\ hist = [claimed |-> {}, launched |-> {}, requested |-> {}, returned |-> {},
               puts |-> [id \in GroupJobIds |-> 0],
               requeues |-> [id \in GroupJobIds |-> 0],
               start_file |-> status_file, start_dirs |-> dirs]

\* the crawl phase: the input loop, the workers, the join
NextGroups ==
    \/ Put
    \/ Join
    \/ \E w \in Workers :
         \/ Get(w)
         \/ Check(w)
         \/ Claim(w)
         \/ Launch(w)
         \/ AddStatus(w)
         \/ Fanout(w)
         \/ NoResults(w)
         \/ Table(w)
         \/ Row(w)
         \/ PageTurn(w)
         \/ SaveUpdate(w)
         \/ SourceRaise(w)
         \/ RowRaise(w)
         \/ Handler(w)
         \/ HandlerRaise(w)
         \/ TaskDone(w)

SpecGroups == InitGroups /\ [][NextGroups]_vars

\* the worker that takes the step, and the ktatrova of the job it runs
Acts(w) == <<pc[w], cur[w], loc[w]>> # <<pc'[w], cur'[w], loc'[w]>>
ActingGroup(w) == IF pc[w] = "idle" THEN cur'[w].ktatrova ELSE cur[w].ktatrova

\* C31: a step of a job of one ktatrova leaves the ledger, the active set, the
\* status file, the record files and the directories of every other ktatrova
\* as they were; and a job is ended as already active only when its case is
\* in the active set of its own ktatrova
C31_GroupIsolation ==
    [][\A w \in Workers :
          Acts(w) =>
             /\ \A g \in GroupNames \ {ActingGroup(w)} :
                   /\ status_csvs'[g] = status_csvs[g]
                   /\ status_file'[g] = status_file[g]
                   /\ \A k \in GroupDirKeys :
                         k[1] = g => /\ dirs'[k] = dirs[k]
                                     /\ res_files'[k] = res_files[k]
             /\ (pc[w] = "claim" /\ pc'[w] = "task_done")
                => cur[w].tik_id \in status_csvs[cur[w].ktatrova].tik_ids_queued
             /\ (pc[w] = "claim" /\ pc'[w] = "launch")
                => cur[w].tik_id \notin status_csvs[cur[w].ktatrova].tik_ids_queued]_vars

\* the same case is claimed by a job of each ktatrova
C31_Witness ==
    \E tik \in Tiks :
        /\ \A g \in GroupNames : tik \in status_csvs[g].tik_ids_queued
        /\ \A g \in GroupNames : \E id \in GroupJobIds : <<g, tik, id>> \in hist.claimed


\* the status and the five counters of a row
RowState(r) == <<r.status, r.docs_in_csv, r.docs_in_directory, r.docs_in_web,
                 r.docs_in_csv_not_in_dir, r.docs_in_dir_not_in_csv>>

\* C32 as stated: when the queue is joined, the rows of a ktatrova that carry
\* the same case hold the same status and the same five counters
C32_SharedCaseRowsAgree ==
    mpc = "merge" =>
        \A kt \in Ktatrovas :
            \A r1, r2 \in Range(status_csvs[kt].rows) :
                (r1.tik_id \in Tiks /\ r1.tik_id = r2.tik_id)
                => RowState(r1) = RowState(r2)


\* ------------------------------------------------- a run over a loaded ledger
\* read_status_csvs: the status csv left by an earlier run that discovered
\* cases c1 and c2 for parcel p1 and, if it got that far, case c1 for parcel
\* p2, and fetched none of them (rows of empty status after the discovery,
\* of status mismatch after a fault at the launch)
ResumeLedgers ==
    {[i \in 1..n |->
         create_status_record("A", IF i = 3 THEN "p2" ELSE "p1",
                              IF i = 2 THEN "c2" ELSE "c1", st, "")] :
        n \in {2, 3}, st \in {EMPTY, MISMATCH}}

\* the source of the run: two pages, a case page without results, or calls
\* that can raise
ResumeSources ==
    {Source(<<"c1", "c2">>, <<"c1">>, TRUE, TwoPages, {}, {}, TRUE),
     Source(<<"c1", "c2">>, <<"c1">>, TRUE, OnePage, {}, {"c2"}, TRUE),
     Source(<<"c1", "c2">>, <<"c1">>, TRUE, OnePage, {}, {}, FALSE)}

InitResume ==
    /\ env \in ResumeSources
    /\ dirs = DirsWith({})
    /\ run = 1
    /\ mpc = "put"
    /\ mi = 1
    /\ queue = <<>>
    /\ unfinished = 0
    /\ pc = [w \in Workers |-> "idle"]
    /\ cur = [w \in Workers |-> NoJob]
    /\ loc = [w \in Workers |-> [rep |-> FALSE, k |-> 0, exc |-> FALSE]]
    /\ \E rows \in ResumeLedgers :
          /\ status_file = [kt \in Ktatrovas |-> rows]
          /\ status_csvs = [kt \in Ktatrovas |-> read_csv(rows)]
    /\ res_files = [k \in DirKeys |-> <<>>]
    /\ merged_csv = [kt \in Ktatrovas |-> <<>>]
    /\ reporters = [kt \in Ktatrovas |-> <<>>]
    /\ merged_reporter = <<>>
    /\ data_lock = NoWorker
    /\ faults = 0
    /\ hist = NoHist(status_file, dirs)

SpecResume == InitResume /\ [][NextGroups]_vars

\* the cases that the ledger loaded by this run records as not completed for
\* a parcel of the input
Uncovered(kt) ==
    {r.tik_id : r \in {x \in Range(hist.start_file[kt]) :
                          /\ x.status # COMPLETED
                          /\ x.tik_id \in Tiks
                          /\ \E i \in DOMAIN env.input :
                                env.input[i].kt = kt /\ env.input[i].gc = x.gc}}

\* C33 as stated: when the queue of a run over a loaded ledger is joined,
\* every case the ledger recorded as not completed was claimed by a job that
\* then opened its page
C33_ResumeCoverage ==
    (mpc = "merge" /\ \E kt \in DOMAIN status_csvs : hist.start_file[kt] # <<>>)
    => \A kt \in DOMAIN status_csvs : \A tik \in Uncovered(kt) :
          \E id \in DOMAIN hist.puts :
              <<kt, tik, id>> \in hist.claimed \cap hist.launched


\* C34 as stated: the flush of the page turn is never run on a ledger while
\* another worker is between the first and the last append of a row, and it
\* does not fault for columns of different lengths
C34_FlushSeesWholeRows ==
    [][\A w \in Workers :
          (pc[w] = "inside" /\ Op(w) = "next_page" /\ pc'[w] # "inside")
          => /\ ~Ragged(cur[w].ktatrova)
             /\ faults' = faults]_vars


\* ------------------------------------------------ the crawl phase, scheduled
\* enough exceptions to end every worker thread: one in the job and one in
\* the except block of DownloadWorker.run, for each worker
DrainFaults == 2 * NumWorkers

\* a parcel with two cases and a parcel with none: a reliable source with two
\* pages and a case page without results, and a source that can raise
\* DrainFaults times
DrainSources ==
    {Source(<<"c1", "c2">>, <<>>, TRUE, TwoPages, {}, {"c2"}, TRUE),
     [Source(<<"c1", "c2">>, <<>>, TRUE, OnePage, {}, {}, FALSE)
         EXCEPT !.budget = DrainFaults]}

InitDrain ==
    /\ env \in DrainSources
    /\ dirs = DirsWith({})
    /\ run = 1
    /\ mpc = "put"
    /\ mi = 1
    /\ queue = <<>>
    /\ unfinished = 0
    /\ pc = [w \in Workers |-> "idle"]
    /\ cur = [w \in Workers |-> NoJob]
    /\ loc = [w \in Workers |-> [rep |-> FALSE, k |-> 0, exc |-> FALSE]]
    /\ status_csvs = [kt \in Ktatrovas |-> CsvTikHolder]
    /\ status_file = [kt \in Ktatrovas |-> <<>>]
    /\ res_files = [k \in DirKeys |-> <<>>]
    /\ merged_csv = [kt \in Ktatrovas |-> <<>>]
    /\ reporters = [kt \in Ktatrovas |-> <<>>]
    /\ merged_reporter = <<>>
    /\ data_lock = NoWorker
    /\ faults = 0
    /\ hist = NoHist(status_file, dirs)

\* a step of the thread of worker w
WorkerStep(w) ==
    \/ Get(w) \/ Check(w) \/ Claim(w) \/ Launch(w) \/ AddStatus(w) \/ Fanout(w)
    \/ NoResults(w) \/ Table(w) \/ Row(w) \/ PageTurn(w) \/ SaveUpdate(w)
    \/ SourceRaise(w) \/ RowRaise(w) \/ Handler(w) \/ HandlerRaise(w) \/ TaskDone(w)

\* the main thread and every worker thread that can take a step takes one
SpecDrain ==
    /\ InitDrain
    /\ [][NextGroups]_vars
    /\ WF_vars(Put)
    /\ WF_vars(Join)
    /\ \A w \in Workers : WF_vars(WorkerStep(w))

\* C35 as stated: with finitely many exceptions and fair threads the queue
\* is drained and queue.join() returns
C35_DrainTerminates == <>(mpc = "merge")


\* no two rows of the sequence hold the same composite key
UniqueKeys(rows) ==
    \A i, k \in DOMAIN rows : RowKey(rows[i]) = RowKey(rows[k]) => i = k

\* C36: with distinct input parcels and a discovery that names a case once
\* per parcel, no ledger, in memory or in its file, in the first run or in a
\* later one, holds two rows of the same composite key; and a job appends the
\* rows of its discovery only for a parcel that has no row in the ledger
C36_LedgerKeyUniqueness ==
    /\ \A kt \in Ktatrovas :
          /\ UniqueKeys(status_csvs[kt].rows)
          /\ UniqueKeys(status_file[kt])
    /\ \A w \in Workers :
          pc[w] = "add_status"
          => \A r \in Range(Holder(w).rows) : r.gc # cur[w].gc

\* a later run over a ledger with rows has joined its queue
C36_Witness ==
    /\ run > 1
    /\ mpc = "merge"
    /\ \E kt \in Ktatrovas :
          /\ hist.start_file[kt] # <<>>
          /\ \A i \in DOMAIN env.input :
                \E r \in Range(hist.start_file[kt]) : r.gc = env.input[i].gc

====
